---- MODULE Spec2Model ----
(***************************************************************************)
(* lazy_id::Id: a 64-bit atomic slot that is 0 while uninitialized and is  *)
(* resolved once, on first read, to mix(seq) for a sequence number taken   *)
(* from the process-wide counter ID_ALLOC (src/src/lib.rs).                *)
(*                                                                         *)
(* A u64 is a little-endian tuple of eight bytes, so that wrapping_add and *)
(* wrapping_mul are computed at their real width, modulo 2^64.             *)
(***************************************************************************)
EXTENDS Integers, Sequences, FiniteSets

\* ------------------------------------------------------------------ bounds
NThreads == 2          \* threads that use the slots
NSlots == 2            \* Id values constructed in one run
Headroom == 1          \* a bulk run of Id::new() stops this far below 2^63
MaxProbeSteps == 4     \* operations applied to the mixing probe

Threads == 1..NThreads
Slots == 1..NSlots

\* ------------------------------------------------------- 64-bit arithmetic
Limbs == 8
Base == 256

Zero == [i \in 1..Limbs |-> 0]
One == [i \in 1..Limbs |-> IF i = 1 THEN 1 ELSE 0]
U64_MAX == [i \in 1..Limbs |-> Base - 1]
\* i64::MAX as u64 = 0x7fff_ffff_ffff_ffff
I64_MAX == [i \in 1..Limbs |-> IF i = Limbs THEN (Base \div 2) - 1 ELSE Base - 1]

\* n as u64, for 0 <= n < 2^24
U64(n) ==
    [i \in 1..Limbs |->
        IF i = 1 THEN n % Base
        ELSE IF i = 2 THEN (n \div Base) % Base
        ELSE IF i = 3 THEN n \div (Base * Base)
        ELSE 0]

RECURSIVE AddFrom(_, _, _, _)
AddFrom(a, b, i, carry) ==
    IF i > Limbs THEN <<>>
    ELSE LET t == a[i] + b[i] + carry
         IN <<t % Base>> \o AddFrom(a, b, i + 1, t \div Base)

\* u64::wrapping_add: the carry out of the top byte is dropped
wrapping_add(a, b) == AddFrom(a, b, 1, 0)

RECURSIVE Column(_, _, _, _)
Column(a, b, k, i) ==
    IF i > k THEN 0 ELSE a[i] * b[k + 1 - i] + Column(a, b, k, i + 1)

RECURSIVE MulFrom(_, _, _, _)
MulFrom(a, b, k, carry) ==
    IF k > Limbs THEN <<>>
    ELSE LET t == Column(a, b, k, 1) + carry
         IN <<t % Base>> \o MulFrom(a, b, k + 1, t \div Base)

\* u64::wrapping_mul: the product modulo 2^64
wrapping_mul(a, b) == MulFrom(a, b, 1, 0)

RECURSIVE GtFrom(_, _, _)
GtFrom(a, b, i) ==
    IF i = 0 THEN FALSE
    ELSE IF a[i] # b[i] THEN a[i] > b[i]
    ELSE GtFrom(a, b, i - 1)

\* a > b on u64
Gt(a, b) == GtFrom(a, b, Limbs)

\* !a on u64
Not(a) == [i \in 1..Limbs |-> Base - 1 - a[i]]

\* a - b on u64, wrapping: a + !b + 1
wrapping_sub(a, b) == wrapping_add(wrapping_add(a, Not(b)), One)

\* the literal whose digit groups in the given radix are ds, most significant first
Literal(ds, radix) ==
    LET acc[n \in 0..Len(ds)] ==
            IF n = 0 THEN Zero
            ELSE wrapping_add(wrapping_mul(acc[n - 1], U64(radix)), U64(ds[n]))
    IN acc[Len(ds)]

\* ---------------------------------------------------------------- constants
\* ID2SEQ with its last two digits transposed: odd, but not the inverse of SEQ2ID
ID2SEQ_typo == Literal(<<\h13, \h37fe, \h4451>>, 65536)

\* const ID2SEQ: u64 = 0x1337_fe4415
ID2SEQ == Literal(<<\h13, \h37fe, \h4415>>, 65536)

\* SEQ2ID with its last digit dropped to 8: an even multiplier
SEQ2ID_even == Literal(<<684, 8199, 1232, 8225, 8748>>, 10000)

\* SEQ2ID with two digits transposed: odd, but not the inverse of ID2SEQ
SEQ2ID_typo == Literal(<<684, 8199, 1232, 8225, 8794>>, 10000)

\* const SEQ2ID: u64 = 6848199123282258749
SEQ2ID == Literal(<<684, 8199, 1232, 8225, 8749>>, 10000)

\* seq.get().wrapping_mul(Id::SEQ2ID)
mix(x) == wrapping_mul(x, SEQ2ID)

\* v.wrapping_mul(Self::ID2SEQ)
unmix(x) == wrapping_mul(x, ID2SEQ)

\* (Id::SEQ2ID & 1), the length of the static-assert array in next_id
SEQ2ID_low_bit == SEQ2ID[1] % 2

\* -------------------------------------------------------------------- state
VARIABLES
    ID_ALLOC,    \* static ID_ALLOC: AtomicU64, the next sequence number
    kind,        \* per slot: "none" (not constructed), "lazy", "new", "raw", "clone"
    word,        \* per slot: the AtomicU64 inside the Id; 0 is uninitialized
    origin,      \* per "raw" slot: the argument of from_raw_integer
    cloneOf,     \* per "clone" slot: the slot it was cloned from, else 0
    live,        \* the constructed slots not yet moved into a by-value conversion
    op,          \* per thread: the public operation in progress
    pc,          \* per thread: the next step of that operation
    self,        \* per thread: the slot the operation acts on, else 0
    seq,         \* per thread: the local seq of next_seq, from its fetch_add to the compare_exchange
    id,          \* per thread: the local id / my_id of lazy_init and get_nonzero
    ret,         \* per slot: the values returned by get_nonzero / ensure_init so far
    stores,      \* per slot: the stores to its word after construction
    issued,      \* the sequence numbers next_seq has returned, one call at a time
    nIssued,     \* how many calls of next_seq have returned
    bulked,      \* the ranges <<lo, hi>> of sequence numbers issued by bulk runs
    failed,      \* the debug assertions that have failed
    aborted,     \* the process has been aborted
    probe,       \* the input of the mixing test
    probeSteps,  \* the operations applied to probe so far
    work,        \* per thread: its latest get_nonzero, Id::new or ensure_init, and the
                 \*   atomic operations it made: loads, fetch_adds, compare_exchanges,
                 \*   and the failed ones among these
    winSeq,      \* per slot: the sequence number whose id was stored in its word
    discarded,   \* the ids a losing lazy_init made and dropped
    nAlloc,      \* how many times next_seq has been called, as a u64
    args,        \* per thread: the operands <<a, b>> of a comparison or formatting
    lhs,         \* per thread: the value of the left operand, once known
    out          \* per thread: the result of its latest comparison or formatting

slotVars == <<kind, word, origin, cloneOf, live>>
threadVars == <<op, pc, self, seq, id>>
allocVars == <<ID_ALLOC, issued, nIssued, bulked>>
probeVars == <<probe, probeSteps>>
histVars == <<winSeq, discarded>>
traitVars == <<args, lhs, out>>
vars == <<slotVars, threadVars, allocVars, ret, stores, failed, aborted, probeVars,
          work, histVars, nAlloc, traitVars>>

\* no atomic operation yet
NoWork == [op |-> "none", load |-> 0, fetch |-> 0, cas |-> 0, fail |-> 0]

\* no result yet
NoOut == [k |-> "none"]

\* the values handed to from_raw_integer: 400 (tests.rs), and the first value
\* the allocator produces
RawValues == {U64(400), mix(One)}

Init ==
    /\ ID_ALLOC = One
    /\ kind = [s \in Slots |-> "none"]
    /\ word = [s \in Slots |-> Zero]
    /\ origin = [s \in Slots |-> Zero]
    /\ cloneOf = [s \in Slots |-> 0]
    /\ live = {}
    /\ op = [t \in Threads |-> "idle"]
    /\ pc = [t \in Threads |-> "idle"]
    /\ self = [t \in Threads |-> 0]
    /\ seq = [t \in Threads |-> Zero]
    /\ id = [t \in Threads |-> Zero]
    /\ ret = [s \in Slots |-> {}]
    /\ stores = [s \in Slots |-> 0]
    /\ issued = {}
    /\ nIssued = 0
    /\ bulked = {}
    /\ failed = {}
    /\ aborted = FALSE
    /\ probe = Zero
    /\ probeSteps = 0
    /\ work = [t \in Threads |-> NoWork]
    /\ winSeq = [s \in Slots |-> Zero]
    /\ discarded = {}
    /\ nAlloc = Zero
    /\ args = [t \in Threads |-> <<0, 0>>]
    /\ lhs = [t \in Threads |-> Zero]
    /\ out = [t \in Threads |-> NoOut]

\* ------------------------------------------------------------------ helpers
NumSlots == Cardinality({s \in Slots : kind[s] # "none"})

\* the operations in progress that end by constructing an Id
Pending == Cardinality({t \in Threads : op[t] \in {"new", "clone"}})

\* there is room for one more Id within the bound
Room == NumSlots + Pending < NSlots

NextSlot == NumSlots + 1

Idle(t) == ~aborted /\ pc[t] = "idle"

\* Self(AtomicU64::new(w)): a new Id whose word is w
Construct(k, w, o, c) ==
    /\ kind' = [kind EXCEPT ![NextSlot] = k]
    /\ word' = [word EXCEPT ![NextSlot] = w]
    /\ origin' = [origin EXCEPT ![NextSlot] = o]
    /\ cloneOf' = [cloneOf EXCEPT ![NextSlot] = c]
    /\ live' = live \cup {NextSlot}

\* the thread's operation is over
Done(t) ==
    /\ op' = [op EXCEPT ![t] = "idle"]
    /\ pc' = [pc EXCEPT ![t] = "idle"]
    /\ self' = [self EXCEPT ![t] = 0]
    /\ seq' = [seq EXCEPT ![t] = Zero]
    /\ id' = [id EXCEPT ![t] = Zero]

\* a failed debug_assert!: the thread panics
Panic(t, label) ==
    /\ failed' = failed \cup {label}
    /\ pc' = [pc EXCEPT ![t] = "panicked"]
    /\ UNCHANGED <<slotVars, op, self, seq, id, allocVars, ret, stores, aborted, probeVars,
                   work, histVars, nAlloc, traitVars>>

\* the thread's operation leaves the result r behind, or none
Result(t, r) ==
    /\ out' = [out EXCEPT ![t] = r]
    /\ args' = [args EXCEPT ![t] = <<0, 0>>]
    /\ lhs' = [lhs EXCEPT ![t] = Zero]

\* ------------------------------------------------------------- number text
RECURSIVE Rem10(_, _)
\* the bytes i.. of x, as a number, modulo 10
Rem10(x, i) == IF i > Limbs THEN 0 ELSE (Rem10(x, i + 1) * Base + x[i]) % 10

\* x / 10 on u64, by long division from the top byte
Quot10(x) ==
    <<(Rem10(x, 2) * Base + x[1]) \div 10, (Rem10(x, 3) * Base + x[2]) \div 10,
      (Rem10(x, 4) * Base + x[3]) \div 10, (Rem10(x, 5) * Base + x[4]) \div 10,
      (Rem10(x, 6) * Base + x[5]) \div 10, (Rem10(x, 7) * Base + x[6]) \div 10,
      (Rem10(x, 8) * Base + x[7]) \div 10, x[8] \div 10>>

RECURSIVE Digits(_)
Digits(x) == IF x = Zero THEN <<>> ELSE Append(Digits(Quot10(x)), Rem10(x, 1))

\* "{}" of a u64: its decimal digits, most significant first
Decimal(x) == IF x = Zero THEN <<0>> ELSE Digits(x)

RECURSIVE Nibbles(_, _)
\* the hexadecimal digits of the bytes ..i of x, without leading zeros
Nibbles(x, i) ==
    IF i = 0 THEN <<>>
    ELSE IF \A j \in i..Limbs : x[j] = 0 THEN Nibbles(x, i - 1)
    ELSE IF x[i] < 16 /\ \A j \in (i + 1)..Limbs : x[j] = 0
    THEN <<x[i]>> \o Nibbles(x, i - 1)
    ELSE <<x[i] \div 16, x[i] % 16>> \o Nibbles(x, i - 1)

\* "{:#x}" of a u64: the digits that follow "0x"
Hex(x) == IF x = Zero THEN <<0>> ELSE Nibbles(x, Limbs)

\* a comparison that is deaf to its operands
Equal_never(x, y) == FALSE

\* == on u64
Equal(x, y) == x = y

\* the ordering of the two sequence numbers rather than of the two values
Ordering_of_seq(x, y) ==
    IF Gt(unmix(y), unmix(x)) THEN "Less" ELSE IF Gt(unmix(x), unmix(y)) THEN "Greater" ELSE "Equal"

\* u64::cmp, and u64::partial_cmp less its Some
Ordering(x, y) == IF Gt(y, x) THEN "Less" ELSE IF Gt(x, y) THEN "Greater" ELSE "Equal"

\* get_nonzero returns v for slot s to operation o of thread t, and o goes on:
\* get is over; clone wraps v in a new Id; the formatters write v out; a
\* comparison turns to its right operand, or compares
Return(t, s, o, v) ==
    /\ ret' = [ret EXCEPT ![s] = @ \cup {v}]
    /\ IF o = "clone"
       THEN Construct("clone", v, Zero, s)
       ELSE UNCHANGED slotVars
    /\ IF o \in {"eq", "cmp"}
       THEN \* self.get() is known; o.get() is next
            /\ lhs' = [lhs EXCEPT ![t] = v]
            /\ op' = [op EXCEPT ![t] = IF o = "eq" THEN "eq_rhs" ELSE "cmp_rhs"]
            /\ pc' = [pc EXCEPT ![t] = "load"]
            /\ self' = [self EXCEPT ![t] = args[t][2]]
            /\ seq' = [seq EXCEPT ![t] = Zero]
            /\ id' = [id EXCEPT ![t] = Zero]
            /\ UNCHANGED <<args, out>>
       ELSE /\ Done(t)
            /\ Result(t, CASE o = "eq_rhs" ->
                                [k |-> "eq", a |-> args[t][1], b |-> s, lhs |-> lhs[t],
                                 res |-> Equal(lhs[t], v)]
                           [] o = "cmp_rhs" ->
                                [k |-> "cmp", a |-> args[t][1], b |-> s, lhs |-> lhs[t],
                                 res |-> Ordering(lhs[t], v)]
                           [] o = "debug" ->
                                \* "Id({:#x}; seq={})", v, v.wrapping_mul(Self::ID2SEQ)
                                [k |-> "debug", b |-> s, hex |-> Hex(v),
                                 seq |-> Decimal(unmix(v))]
                           [] o = "display" ->
                                \* self.get().fmt(f)
                                [k |-> "display", b |-> s, text |-> Decimal(v)]
                           [] OTHER -> NoOut)

\* --------------------------------------------------------- sequence allocator
\* a fetch_add that forgets to add
Incremented_not(c) == c

\* ID_ALLOC after fetch_add(1, Relaxed)
Incremented(c) == wrapping_add(c, One)

\* a fetch_add that returns the value after the addition
Fetched_after(c) == wrapping_add(c, One)

\* what fetch_add returns: the value before the addition
Fetched(c) == c

\* the overflow test written as an equality with the last value before the wrap
Overflowed_at_wrap(s) == s = U64_MAX

\* the overflow test written as an equality with the wrapped value
Overflowed_eq0(s) == s = Zero

\* seq > (i64::MAX as u64)
Overflowed(s) == Gt(s, I64_MAX)

\* let seq = ID_ALLOC.fetch_add(1, Relaxed), by thread t for operation o on slot s
FetchAdd(t, o, s) ==
    /\ seq' = [seq EXCEPT ![t] = Fetched(ID_ALLOC)]
    /\ ID_ALLOC' = Incremented(ID_ALLOC)
    /\ nAlloc' = wrapping_add(nAlloc, One)
    /\ op' = [op EXCEPT ![t] = o]
    /\ pc' = [pc EXCEPT ![t] = "check"]
    /\ self' = [self EXCEPT ![t] = s]
    /\ IF pc[t] = "idle"
       THEN /\ work' = [work EXCEPT ![t] = [NoWork EXCEPT !.op = o, !.fetch = 1]]
            /\ out' = [out EXCEPT ![t] = NoOut]
       ELSE /\ work' = [work EXCEPT ![t].fetch = @ + 1]
            /\ UNCHANGED out
    /\ UNCHANGED <<id, issued, nIssued, bulked, ret, stores, failed, aborted, probeVars,
                   histVars, args, lhs>>

\* ------------------------------------------------------------- constructors
\* a lazy constructor that reserves its sequence number at construction
lazy_reserving(t) ==
    /\ Idle(t)
    /\ Room
    /\ Construct("lazy", Zero, Zero, 0)
    /\ ID_ALLOC' = Incremented(ID_ALLOC)
    /\ work' = [work EXCEPT ![t] = NoWork]
    /\ out' = [out EXCEPT ![t] = NoOut]
    /\ UNCHANGED <<threadVars, issued, nIssued, bulked, ret, stores, failed, aborted,
                   probeVars, histVars, nAlloc, args, lhs>>

\* Id::lazy() / Id::LAZY_INITIALIZER
lazy(t) ==
    /\ Idle(t)
    /\ Room
    /\ Construct("lazy", Zero, Zero, 0)
    /\ work' = [work EXCEPT ![t] = NoWork]
    /\ out' = [out EXCEPT ![t] = NoOut]
    /\ UNCHANGED <<threadVars, allocVars, ret, stores, failed, aborted, probeVars,
                   histVars, nAlloc, args, lhs>>

\* from_raw_integer with the value passed through the mixing function
RawWord_mixed(v) == mix(v)

\* the word from_raw_integer stores for its argument
RawWord(v) == v

\* Id::from_raw_integer(v)
from_raw_integer(t, v) ==
    /\ Idle(t)
    /\ Room
    /\ Construct("raw", RawWord(v), v, 0)
    /\ work' = [work EXCEPT ![t] = NoWork]
    /\ out' = [out EXCEPT ![t] = NoOut]
    /\ UNCHANGED <<threadVars, allocVars, ret, stores, failed, aborted, probeVars,
                   histVars, nAlloc, args, lhs>>

\* Id::new() / Id::default(): up to the fetch_add of next_seq
new(t) ==
    /\ Idle(t)
    /\ Room
    /\ FetchAdd(t, "new", 0)
    /\ UNCHANGED slotVars

\* -------------------------------------------------------------------- reads
\* get_nonzero of slot s for operation o: the Relaxed load of the word, and
\* the fast path when it is nonzero
Load(t, s, o) ==
    /\ work' = [work EXCEPT ![t] = [NoWork EXCEPT !.op = o, !.load = 1]]
    /\ IF word[s] # Zero
       THEN /\ Return(t, s, o, word[s])
            /\ UNCHANGED <<allocVars, stores, failed, aborted, probeVars, histVars, nAlloc>>
       ELSE /\ op' = [op EXCEPT ![t] = o]
            /\ pc' = [pc EXCEPT ![t] = "fetch"]
            /\ self' = [self EXCEPT ![t] = s]
            /\ UNCHANGED <<slotVars, seq, id, allocVars, ret, stores, failed, aborted,
                           probeVars, histVars, nAlloc, args, lhs, out>>

\* a clone that copies the word as it is, with no get() before
get_nonzero_shallow(t, s, o) ==
    /\ Idle(t)
    /\ s \in live
    /\ o = "clone" => Room
    /\ IF o = "clone"
       THEN /\ Construct("clone", word[s], Zero, s)
            /\ work' = [work EXCEPT ![t] = [NoWork EXCEPT !.op = o, !.load = 1]]
            /\ out' = [out EXCEPT ![t] = NoOut]
            /\ UNCHANGED <<threadVars, allocVars, ret, stores, failed, aborted, probeVars,
                           histVars, nAlloc, args, lhs>>
       ELSE Load(t, s, o)

\* get_nonzero (o = "get") or clone (o = "clone") of slot s
get_nonzero(t, s, o) ==
    /\ Idle(t)
    /\ s \in live
    /\ o = "clone" => Room
    /\ Load(t, s, o)

\* lazy_init: next_id -> next_seq, the fetch_add
next_seq(t) ==
    /\ ~aborted
    /\ pc[t] = "fetch"
    /\ FetchAdd(t, op[t], self[t])
    /\ UNCHANGED slotVars

\* an ensure_init that never takes its early return
EnsureInitHit_never(w) == FALSE

\* ensure_init: if let Some(nz) = NonZeroU64::new(*ptr)
EnsureInitHit(w) == w # Zero

\* From<Id> for u64 / NonZeroU64: ensure_init on an Id the caller owns, which
\* no other thread can reach; a zero word goes on to next_id
ensure_init(t, s) ==
    /\ Idle(t)
    /\ s \in live
    /\ \A u \in Threads : self[u] # s /\ args[u][1] # s /\ args[u][2] # s
    /\ live' = live \ {s}
    /\ UNCHANGED <<kind, word, origin, cloneOf>>
    /\ IF EnsureInitHit(word[s])
       THEN /\ ret' = [ret EXCEPT ![s] = @ \cup {word[s]}]
            /\ work' = [work EXCEPT ![t] = [NoWork EXCEPT !.op = "into"]]
            /\ out' = [out EXCEPT ![t] = NoOut]
            /\ UNCHANGED <<threadVars, allocVars, stores, failed, aborted, probeVars,
                           histVars, nAlloc, args, lhs>>
       ELSE FetchAdd(t, "into", s)

\* next_seq after the fetch_add: the overflow test and debug_assert!(seq != 0);
\* then next_id: id = seq * SEQ2ID and debug_assert!(id != 0); then what the
\* caller does with the id before its next shared access
next_id(t) ==
    /\ ~aborted
    /\ pc[t] = "check"
    /\ IF Overflowed(seq[t])
       THEN /\ pc' = [pc EXCEPT ![t] = "panicking"]
            /\ UNCHANGED <<slotVars, op, self, seq, id, allocVars, ret, stores, failed,
                           aborted, probeVars, work, histVars, nAlloc, traitVars>>
       ELSE IF seq[t] = Zero
       THEN Panic(t, "seq != 0")
       ELSE IF mix(seq[t]) = Zero
       THEN Panic(t, "id != 0")
       ELSE /\ issued' = issued \cup {seq[t]}
            /\ nIssued' = nIssued + 1
            /\ UNCHANGED <<ID_ALLOC, bulked, failed, aborted, probeVars, work, discarded,
                           nAlloc, traitVars>>
            /\ CASE op[t] = "new" ->
                      \* Self(AtomicU64::new(Self::next_id().get()))
                      /\ Construct("new", mix(seq[t]), Zero, 0)
                      /\ winSeq' = [winSeq EXCEPT ![NextSlot] = seq[t]]
                      /\ Done(t)
                      /\ UNCHANGED <<ret, stores>>
                 [] op[t] = "into" ->
                      \* *ptr = id.get(); id
                      /\ word' = [word EXCEPT ![self[t]] = mix(seq[t])]
                      /\ winSeq' = [winSeq EXCEPT ![self[t]] = seq[t]]
                      /\ stores' = [stores EXCEPT ![self[t]] = @ + 1]
                      /\ ret' = [ret EXCEPT ![self[t]] = @ \cup {mix(seq[t])}]
                      /\ Done(t)
                      /\ UNCHANGED <<kind, origin, cloneOf, live>>
                 [] OTHER ->
                      \* lazy_init goes on to its compare_exchange
                      /\ id' = [id EXCEPT ![t] = mix(seq[t])]
                      /\ pc' = [pc EXCEPT ![t] = "cas"]
                      /\ UNCHANGED <<slotVars, op, self, seq, ret, stores, winSeq>>

\* a compare_exchange that stores whatever the current value is
CasSucceeds_always(current) == TRUE

\* compare_exchange(0, ..): it stores iff the current value is the expected 0
CasSucceeds(current) == current = Zero

\* a loser that keeps the id it made
Adopted_own(e, mine) == mine

\* Err(e) => e: the loser takes the value it found
Adopted(e, mine) == e

\* lazy_init with a loop around its compare_exchange: a loser starts over
lazy_init_retry(t) ==
    /\ ~aborted
    /\ pc[t] = "cas"
    /\ seq' = [seq EXCEPT ![t] = Zero]
    /\ work' = [work EXCEPT ![t].cas = @ + 1,
                            ![t].fail = @ + (IF CasSucceeds(word[self[t]]) THEN 0 ELSE 1)]
    /\ IF CasSucceeds(word[self[t]])
       THEN /\ word' = [word EXCEPT ![self[t]] = id[t]]
            /\ winSeq' = [winSeq EXCEPT ![self[t]] = seq[t]]
            /\ stores' = [stores EXCEPT ![self[t]] = @ + 1]
            /\ pc' = [pc EXCEPT ![t] = "assert"]
            /\ UNCHANGED <<kind, origin, cloneOf, live, op, self, id, allocVars,
                           ret, failed, aborted, probeVars, discarded, nAlloc, traitVars>>
       ELSE /\ discarded' = discarded \cup {id[t]}
            /\ id' = [id EXCEPT ![t] = Zero]
            /\ pc' = [pc EXCEPT ![t] = "fetch"]
            /\ UNCHANGED <<slotVars, op, self, allocVars, ret, stores, failed,
                           aborted, probeVars, winSeq, nAlloc, traitVars>>

\* lazy_init: self.0.compare_exchange(0, id.get(), Relaxed, Relaxed)
lazy_init(t) ==
    /\ ~aborted
    /\ pc[t] = "cas"
    /\ LET e == word[self[t]]
       IN IF CasSucceeds(e)
          THEN \* Ok(_) => id
               /\ word' = [word EXCEPT ![self[t]] = id[t]]
               /\ winSeq' = [winSeq EXCEPT ![self[t]] = seq[t]]
               /\ stores' = [stores EXCEPT ![self[t]] = @ + 1]
               /\ work' = [work EXCEPT ![t].cas = @ + 1]
               /\ seq' = [seq EXCEPT ![t] = Zero]
               /\ pc' = [pc EXCEPT ![t] = "assert"]
               /\ UNCHANGED <<kind, origin, cloneOf, live, op, self, id, allocVars,
                              ret, failed, aborted, probeVars, discarded, nAlloc, traitVars>>
          ELSE IF e = Zero
          THEN Panic(t, "e != 0")
          ELSE \* Err(e) => e
               /\ id' = [id EXCEPT ![t] = Adopted(e, id[t])]
               /\ discarded' = discarded \cup {id[t]}
               /\ work' = [work EXCEPT ![t].cas = @ + 1, ![t].fail = @ + 1]
               /\ seq' = [seq EXCEPT ![t] = Zero]
               /\ pc' = [pc EXCEPT ![t] = "assert"]
               /\ UNCHANGED <<slotVars, op, self, allocVars, ret, stores, failed,
                              aborted, probeVars, winSeq, nAlloc, traitVars>>

\* get_nonzero after lazy_init: debug_assert_eq!(self.0.load(Relaxed), my_id.get()),
\* then my_id is returned
get_nonzero_cold(t) ==
    /\ ~aborted
    /\ pc[t] = "assert"
    /\ IF word[self[t]] # id[t]
       THEN Panic(t, "load == my_id")
       ELSE /\ Return(t, self[t], op[t], id[t])
            /\ work' = [work EXCEPT ![t].load = @ + 1]
            /\ UNCHANGED <<allocVars, stores, failed, aborted, probeVars, histVars, nAlloc>>

\* ------------------------------------------------------------------- abort
\* nostd_abort without the PanicOnDrop guard: the panic unwinds the calling
\* thread only
nostd_abort_unwind(t) ==
    /\ ~aborted
    /\ pc[t] = "panicking"
    /\ pc' = [pc EXCEPT ![t] = "panicked"]
    /\ UNCHANGED <<slotVars, op, self, seq, id, allocVars, ret, stores, failed, aborted,
                   probeVars, work, histVars, nAlloc, traitVars>>

\* nostd_abort: panic!(1/2) unwinds into the drop of PanicOnDrop, whose
\* panic!(2/2) while unwinding aborts the process
nostd_abort(t) ==
    /\ ~aborted
    /\ pc[t] = "panicking"
    /\ aborted' = TRUE
    /\ UNCHANGED <<slotVars, threadVars, allocVars, ret, stores, failed, probeVars,
                   work, histVars, nAlloc, traitVars>>

\* ------------------------------------------------------------ long-run step
\* 2^63 - Headroom: where a bulk run stops
BulkTarget == wrapping_sub(wrapping_add(I64_MAX, One), U64(Headroom))

\* Id::new() called and its result dropped, again and again by one thread,
\* until ID_ALLOC reaches BulkTarget: every sequence number of the run passes
\* the overflow test, and no Id of the run survives
BulkNew(t) ==
    /\ Idle(t)
    /\ Gt(BulkTarget, ID_ALLOC)
    /\ ~Overflowed(ID_ALLOC)
    /\ ~Overflowed(wrapping_sub(BulkTarget, One))
    /\ ID_ALLOC' = BulkTarget
    /\ nAlloc' = wrapping_add(nAlloc, wrapping_sub(BulkTarget, ID_ALLOC))
    /\ bulked' = bulked \cup {<<ID_ALLOC, BulkTarget>>}
    /\ work' = [work EXCEPT ![t] = [NoWork EXCEPT !.op = "new", !.fetch = 1]]
    /\ out' = [out EXCEPT ![t] = NoOut]
    /\ UNCHANGED <<slotVars, threadVars, issued, nIssued, ret, stores, failed, aborted,
                   probeVars, histVars, args, lhs>>

\* ---------------------------------------------------- comparing, formatting
\* the u64 operands of Id == u64 and u64 == Id
U64Operands == {Zero, mix(One), U64(400)}

\* PartialEq for Id (k = "eq"), PartialOrd and Ord for Id (k = "cmp"), on
\* the operands a and b: the call, with self.get() to come first
compare(t, k, a, b) ==
    /\ Idle(t)
    /\ a \in live
    /\ b \in live
    /\ args' = [args EXCEPT ![t] = <<a, b>>]
    /\ op' = [op EXCEPT ![t] = k]
    /\ pc' = [pc EXCEPT ![t] = "load"]
    /\ self' = [self EXCEPT ![t] = a]
    /\ out' = [out EXCEPT ![t] = NoOut]
    /\ work' = [work EXCEPT ![t] = NoWork]
    /\ UNCHANGED <<slotVars, seq, id, allocVars, ret, stores, failed, aborted, probeVars,
                   histVars, nAlloc, lhs>>

\* PartialEq<u64> for Id and PartialEq<Id> for u64, on the Id a and the
\* number v: the call, with the one get() to come
eq_u64(t, a, v) ==
    /\ Idle(t)
    /\ a \in live
    /\ args' = [args EXCEPT ![t] = <<0, a>>]
    /\ lhs' = [lhs EXCEPT ![t] = v]
    /\ op' = [op EXCEPT ![t] = "eq_rhs"]
    /\ pc' = [pc EXCEPT ![t] = "load"]
    /\ self' = [self EXCEPT ![t] = a]
    /\ out' = [out EXCEPT ![t] = NoOut]
    /\ work' = [work EXCEPT ![t] = NoWork]
    /\ UNCHANGED <<slotVars, seq, id, allocVars, ret, stores, failed, aborted, probeVars,
                   histVars, nAlloc>>

\* the get() of an operand of a comparison
get(t) ==
    /\ ~aborted
    /\ pc[t] = "load"
    /\ Load(t, self[t], op[t])

\* Debug (k = "debug") and Display (k = "display") for Id: self.get() first
fmt(t, s, k) ==
    /\ Idle(t)
    /\ s \in live
    /\ Load(t, s, k)

\* ------------------------------------------------------------- mixing test
\* the inputs test::mixing feeds to syncmix / syncunmix are i, !i, mix(i) and
\* unmix(i) for a running i; the probe also takes the edge values
ProbeEdges == {U64_MAX, I64_MAX, SEQ2ID, ID2SEQ}

ProbeStep(v) ==
    /\ probeSteps < MaxProbeSteps
    /\ probe' = v
    /\ probeSteps' = probeSteps + 1
    /\ UNCHANGED <<slotVars, threadVars, allocVars, ret, stores, failed, aborted,
                   work, histVars, nAlloc, traitVars>>

probe_next == ProbeStep(wrapping_add(probe, One))
probe_not == ProbeStep(Not(probe))
probe_mix == ProbeStep(mix(probe))
probe_unmix == ProbeStep(unmix(probe))
probe_edge == \E v \in ProbeEdges : ProbeStep(v)

\* ------------------------------------------------------------ specification
Next ==
    \E t \in Threads :
        \/ lazy(t)
        \/ new(t)
        \/ \E v \in RawValues : from_raw_integer(t, v)
        \/ \E s \in Slots, o \in {"get", "clone"} : get_nonzero(t, s, o)
        \/ \E s \in Slots : ensure_init(t, s)
        \/ next_seq(t)
        \/ next_id(t)
        \/ lazy_init(t)
        \/ get_nonzero_cold(t)
        \/ nostd_abort(t)
        \/ BulkNew(t)

Spec == Init /\ [][Next]_vars

\* the thread that compares and formats; every thread reads and clones under it
Comparers == {1}

\* the operations of the comparison and formatting traits, over slots that
\* are constructed, read and cloned at the same time
TraitNext ==
    \/ \E t \in Threads :
        \/ lazy(t)
        \/ new(t)
        \/ \E s \in Slots, o \in {"get", "clone"} : get_nonzero(t, s, o)
        \/ next_seq(t)
        \/ next_id(t)
        \/ lazy_init(t)
        \/ get_nonzero_cold(t)
    \/ \E t \in Comparers :
        \/ \E k \in {"eq", "cmp"}, a \in Slots, b \in Slots : compare(t, k, a, b)
        \/ \E a \in Slots, v \in U64Operands : eq_u64(t, a, v)
        \/ \E s \in Slots, k \in {"debug", "display"} : fmt(t, s, k)
        \/ get(t)

TraitSpec == Init /\ [][TraitNext]_vars

\* every operation on the slots short of exhaustion: the traits, the raw
\* constructor and the by-value conversions together
OpsNext ==
    \/ TraitNext
    \/ \E t \in Threads :
        \/ \E v \in RawValues : from_raw_integer(t, v)
        \/ \E s \in Slots : ensure_init(t, s)

OpsSpec == Init /\ [][OpsNext]_vars

MixNext ==
    \/ probe_next
    \/ probe_not
    \/ probe_mix
    \/ probe_unmix
    \/ probe_edge

\* the mixing function applied to the test's inputs, the slots untouched
MixSpec == Init /\ [][MixNext]_vars

\* ------------------------------------------------------------------ claims
\* the slots whose value comes from the allocator: lazy or eager construction
Allocated(s) == kind[s] \in {"lazy", "new"}

\* x lies in the bulk range b = <<lo, hi>>: lo <= x < hi
InRange(x, b) == ~Gt(b[1], x) /\ Gt(b[2], x)

\* a thread between the fetch_add of next_seq and its return
InNextSeq(t) == pc[t] \in {"check", "panicking"}

\* C1 (Uniqueness): two distinct slots made by Id::lazy or Id::new that are
\* both initialized hold different values, in every interleaving.
C1_Uniqueness ==
    \A a, b \in Slots :
        (a # b /\ Allocated(a) /\ Allocated(b) /\ word[a] # Zero /\ word[b] # Zero)
            => word[a] # word[b]

\* two lazy slots, each resolved by a store after construction
C1_Witness ==
    \E a, b \in Slots :
        /\ a # b
        /\ kind[a] = "lazy" /\ kind[b] = "lazy"
        /\ stores[a] = 1 /\ stores[b] = 1

\* C2 (Stability): all the reads of one slot, by any thread, return the same
\* value, also when the first reads race inside lazy_init.
C2_Stability == \A s \in Slots : Cardinality(ret[s]) <= 1

\* one lazy slot, two sequence numbers spent on it by two racing first reads,
\* both reads returned
C2_Witness ==
    \E s \in Slots :
        /\ kind[s] = "lazy" /\ NumSlots = 1
        /\ nIssued = 2
        /\ ret[s] # {}
        /\ \A t \in Threads : pc[t] = "idle"

\* C3 (One-way transition): a slot's word changes at most once, from 0 to a
\* nonzero value, and a nonzero word is never written again: at most one
\* store per slot after construction, none to a slot constructed initialized.
C3_OneWay ==
    /\ [][\A s \in Slots :
            word'[s] # word[s] => (word[s] = Zero /\ word'[s] # Zero)]_vars
    /\ [](\A s \in Slots :
            /\ stores[s] <= 1
            /\ kind[s] \in {"new", "raw", "clone"} => stores[s] = 0
            /\ stores[s] = 1 => word[s] # Zero)

\* a lazy slot stored once although two threads reached its compare_exchange,
\* and since then cloned
C3_Witness ==
    \E s, c \in Slots :
        /\ kind[s] = "lazy" /\ stores[s] = 1 /\ nIssued = 2
        /\ kind[c] = "clone" /\ cloneOf[c] = s
        /\ \A t \in Threads : pc[t] = "idle"

\* C4 (Bijection round-trip): unmix(mix(x)) = x and mix(unmix(x)) = x for
\* every input of the mixing test, the edge values included.
C4_RoundTrip == unmix(mix(probe)) = probe /\ mix(unmix(probe)) = probe

\* the probe is an edge value that has gone through mix
C4_Witness == probe = mix(U64_MAX) /\ probeSteps = 2

\* 2^k as u64
Pow2(k) ==
    [i \in 1..Limbs |-> IF i = (k \div 8) + 1 THEN 2 ^ (k % 8) ELSE 0]

\* every power of two, and the edge values
SentinelSamples == {Pow2(k) : k \in 0..63} \cup ProbeEdges \cup {One, U64(400)}

\* mix never maps a nonzero sample to 0
SentinelOnSamples == \A x \in SentinelSamples : mix(x) # Zero

\* C5 (Sentinel preservation): SEQ2ID is odd, mix(0) = 0, mix(x) # 0 for the
\* nonzero x sampled and for every sequence number a thread holds, and the
\* id next_id produces is never 0 (debug_assert!(id != 0) never fails).
C5_Sentinel ==
    /\ SEQ2ID_low_bit = 1
    /\ mix(Zero) = Zero
    /\ SentinelOnSamples
    /\ "id != 0" \notin failed
    /\ \A t \in Threads :
        /\ (InNextSeq(t) /\ seq[t] # Zero) => mix(seq[t]) # Zero
        /\ pc[t] = "cas" => id[t] # Zero
    /\ \A s \in Slots : kind[s] = "new" => word[s] # Zero

\* next_id has returned an id made from a sequence number just under 2^63
C5_Witness ==
    \E t \in Threads :
        pc[t] = "cas" /\ id[t] = mix(I64_MAX) /\ id[t] # Zero

\* C6 (Counter exhaustion is fatal): next_seq returns no sequence number
\* that is 0 or above i64::MAX; a thread whose fetch_add yielded more than
\* i64::MAX is still before the test or inside nostd_abort, and the id of
\* that sequence number is in no slot and was returned by no read.
C6_ExhaustionFatal ==
    /\ \A x \in issued : x # Zero /\ ~Gt(x, I64_MAX)
    /\ \A t \in Threads :
        Gt(seq[t], I64_MAX) =>
            /\ InNextSeq(t)
            /\ \A s \in Slots : word[s] # mix(seq[t]) /\ mix(seq[t]) \notin ret[s]
    /\ \A t \in Threads :
        pc[t] = "panicking" => Gt(seq[t], I64_MAX)

\* a first read of a lazy slot has ended in nostd_abort, the slot still 0
C6_Witness ==
    \E t \in Threads :
        /\ pc[t] = "panicking" /\ op[t] = "get"
        /\ word[self[t]] = Zero /\ stores[self[t]] = 0

\* C7 (Overflow check robust to suspension): whatever happens between a
\* thread's fetch_add and its test, next_seq returns neither 0 nor a
\* sequence number it has returned before, and a thread that holds a
\* sequence number above i64::MAX leaves the test only into nostd_abort.
C7_SuspensionSafe ==
    /\ [](/\ Zero \notin issued
          /\ "seq != 0" \notin failed
          /\ Cardinality(issued) = nIssued
          /\ \A x \in issued, b \in bulked : ~InRange(x, b))
    /\ [][\A t \in Threads :
            (pc[t] = "check" /\ Gt(seq[t], I64_MAX) /\ pc'[t] # "check")
                => pc'[t] = "panicking"]_vars

\* a thread suspended before its test with a sequence number above i64::MAX,
\* while another thread has allocated after it and already detected the overflow
C7_Witness ==
    \E t, u \in Threads :
        /\ pc[t] = "check" /\ Gt(seq[t], I64_MAX)
        /\ pc[u] = "panicking" /\ Gt(seq[u], seq[t])

C9_Allocator ==
    /\ ID_ALLOC = One
    /\ [][(ID_ALLOC' # ID_ALLOC /\ bulked' = bulked) =>
            /\ ID_ALLOC' = wrapping_add(ID_ALLOC, One)
            /\ \E t \in Threads :
                pc[t] # "check" /\ pc'[t] = "check" /\ seq'[t] = ID_ALLOC]_vars
    /\ [](/\ Gt(ID_ALLOC, Zero)
          /\ \A x \in issued : x # Zero /\ Gt(ID_ALLOC, x)
          /\ \A t \in Threads : InNextSeq(t) => (seq[t] # Zero /\ Gt(ID_ALLOC, seq[t]))
          /\ \A t, u \in Threads : (t # u /\ InNextSeq(t) /\ InNextSeq(u)) => seq[t] # seq[u]
          /\ \A t \in Threads : InNextSeq(t) => seq[t] \notin issued
          /\ Cardinality(issued) = nIssued
          /\ "seq != 0" \notin failed)

\* next_seq has returned 1 and 2, and a third call holds 3
C9_Witness ==
    /\ issued = {One, U64(2)}
    /\ \E t \in Threads : pc[t] = "check" /\ seq[t] = U64(3)

\* C10 (Escape hatch): a slot made by from_raw_integer(v) holds v, and every
\* read of it returns v, unmixed, whether or not the allocator produces v too.
C10_EscapeHatch ==
    \A s \in Slots :
        kind[s] = "raw" => (word[s] = origin[s] /\ ret[s] \subseteq {origin[s]})

\* a raw slot has been read, and its value is also the value of an eager Id
C10_Witness ==
    \E s, n \in Slots :
        /\ kind[s] = "raw" /\ ret[s] = {origin[s]}
        /\ kind[n] = "new" /\ word[n] = origin[s]

\* C11 (Clone equivalence): a clone is a slot of its own that is initialized
\* from its construction on with the resolved value of its source, so that the
\* two words are equal and nonzero, every read of either returns that value,
\* nothing is ever stored to the clone, and a clone that finds its source
\* uninitialized resolves it with one fetch_add and one compare_exchange.
C11_CloneEquivalence ==
    /\ \A c \in Slots :
         kind[c] = "clone" =>
            /\ cloneOf[c] \in Slots \ {c}
            /\ word[c] # Zero
            /\ word[c] = word[cloneOf[c]]
            /\ ret[c] \subseteq {word[c]}
            /\ ret[cloneOf[c]] \subseteq {word[c]}
            /\ stores[c] = 0
            /\ stores[cloneOf[c]] <= 1
    /\ \A t \in Threads :
         /\ op[t] = "clone" /\ pc[t] \in {"check", "cas"} => work[t].fetch = 1
         /\ work[t].op = "clone" /\ pc[t] \in {"assert", "idle"} =>
               \/ work[t].fetch = 0 /\ work[t].cas = 0 /\ pc[t] = "idle"
               \/ work[t].fetch = 1 /\ work[t].cas = 1

\* a clone of a lazy Id that found it uninitialized and resolved it itself,
\* and a read of the clone afterwards
C11_Witness ==
    \E c \in Slots, t \in Threads :
        /\ kind[c] = "clone"
        /\ kind[cloneOf[c]] = "lazy"
        /\ pc[t] = "idle"
        /\ work[t].op = "clone"
        /\ work[t].cas = 1
        /\ work[t].fail = 0
        /\ ret[c] # {}
        /\ ret[cloneOf[c]] # {}

\* C12 (Equality): a == b, for two Ids or an Id and a u64 in either order, is
\* true exactly when the resolved values are equal; when it returns, every Id
\* operand is initialized; and an Id compared with itself is equal, even when
\* it was uninitialized before or is being initialized by another thread.
C12_Equality ==
    \A t \in Threads :
        out[t].k = "eq" =>
            /\ word[out[t].b] # Zero
            /\ out[t].a # 0 => word[out[t].a] # Zero /\ out[t].lhs = word[out[t].a]
            /\ out[t].res <=> (out[t].lhs = word[out[t].b])
            /\ out[t].a = out[t].b => out[t].res

\* a lazy Id, the only one there is, compared with itself while another
\* thread's initialization of it was under way: one of the two lost the race
C12_Witness ==
    \E t \in Threads :
        /\ out[t].k = "eq"
        /\ out[t].a = out[t].b
        /\ kind[out[t].a] = "lazy"
        /\ out[t].res
        /\ NumSlots = 1
        /\ discarded # {}

\* C13 (Ordering): partial_cmp and cmp of two Ids resolve both and give the
\* numeric ordering of the two resolved values; for two Ids made by Id::new()
\* the ordering is Less or Greater, never Equal.
C13_Ordering ==
    \A t \in Threads :
        out[t].k = "cmp" =>
            /\ word[out[t].a] # Zero
            /\ word[out[t].b] # Zero
            /\ out[t].lhs = word[out[t].a]
            /\ out[t].res = "Less" <=> Gt(word[out[t].b], word[out[t].a])
            /\ out[t].res = "Greater" <=> Gt(word[out[t].a], word[out[t].b])
            /\ out[t].res = "Equal" <=> word[out[t].a] = word[out[t].b]
            /\ (/\ out[t].a # out[t].b
                /\ kind[out[t].a] = "new"
                /\ kind[out[t].b] = "new") => out[t].res \in {"Less", "Greater"}

\* two Ids made by Id::new() and compared: the left one is the smaller
C13_Witness ==
    \E t \in Threads :
        /\ out[t].k = "cmp"
        /\ out[t].a # out[t].b
        /\ kind[out[t].a] = "new"
        /\ kind[out[t].b] = "new"
        /\ out[t].res = "Less"

\* C14 (Eager construction): Id::new() and Id::default() make exactly one
\* fetch_add and hand back a slot whose word is already mix(s) for the fresh
\* sequence number s they were issued; every later read of that slot returns
\* this word from the fast path, with no thread ever on the cold path for it
\* and no store to it; and two such Ids never hold the same value.
C14_Eager ==
    /\ \A s \in Slots :
         kind[s] = "new" =>
            /\ winSeq[s] \in issued
            /\ word[s] = mix(winSeq[s])
            /\ word[s] # Zero
            /\ stores[s] = 0
            /\ ret[s] \subseteq {word[s]}
            /\ \A t \in Threads : self[t] = s => pc[t] = "load"
            /\ \A s2 \in Slots \ {s} :
                 kind[s2] = "new" => word[s2] # word[s] /\ winSeq[s2] # winSeq[s]
    /\ \A t \in Threads :
         /\ op[t] = "new" => work[t].op = "new" /\ pc[t] \in {"check", "panicking"}
         /\ work[t].op = "new" =>
               work[t].fetch = 1 /\ work[t].load = 0 /\ work[t].cas = 0

\* two Ids made by Id::new(), one of them read since, and the thread that
\* read it did so with a single load
C14_Witness ==
    \E s \in Slots, s2 \in Slots, t \in Threads :
        /\ s # s2
        /\ kind[s] = "new"
        /\ kind[s2] = "new"
        /\ ret[s] # {}
        /\ work[t] = [NoWork EXCEPT !.op = "get", !.load = 1]

\* the slots moved into a by-value conversion
Consumed(s) == kind[s] # "none" /\ s \notin live

\* C15 (Exclusive initialization): ensure_init, the by-value conversion, returns
\* what a read would: on an initialized Id the stored value, with no
\* allocation and no store; on an uninitialized one mix(s) for the value s of
\* the counter at that moment, which it stores with its one fetch_add and no
\* compare_exchange. Two lazy Ids converted hold different numbers, and a
\* converted clone holds the value of its source.
C15_EnsureInit ==
    /\ [][\A s \in Slots :
            s \in live /\ s \notin live' =>
               IF word[s] # Zero
               THEN /\ ID_ALLOC' = ID_ALLOC
                    /\ word' = word
                    /\ stores' = stores
                    /\ ret'[s] = ret[s] \cup {word[s]}
               ELSE /\ ID_ALLOC' = wrapping_add(ID_ALLOC, One)
                    /\ word' = word
                    /\ \E t \in Threads :
                         /\ op'[t] = "into"
                         /\ self'[t] = s
                         /\ seq'[t] = ID_ALLOC]_vars
    /\ [](\A s \in Slots :
            Consumed(s) =>
               /\ stores[s] <= 1
               /\ ret[s] \subseteq {word[s]}
               /\ (\A t \in Threads : self[t] # s) =>
                     /\ word[s] # Zero
                     /\ ret[s] = {word[s]}
                     /\ kind[s] = "lazy" => winSeq[s] \in issued /\ word[s] = mix(winSeq[s])
                     /\ kind[s] = "clone" => word[s] = word[cloneOf[s]]
                     /\ \A s2 \in Slots \ {s} :
                          (/\ Consumed(s2)
                           /\ kind[s] = "lazy"
                           /\ kind[s2] = "lazy"
                           /\ \A t \in Threads : self[t] # s2) => word[s2] # word[s])
    /\ [](\A t \in Threads :
            work[t].op = "into" =>
               work[t].load = 0 /\ work[t].cas = 0 /\ work[t].fetch <= 1)

\* two lazy Ids converted by value, one by each thread, and each conversion
\* found its Id uninitialized and allocated for it
C15_Witness ==
    \E s \in Slots, s2 \in Slots :
        /\ s # s2
        /\ kind[s] = "lazy" /\ Consumed(s) /\ stores[s] = 1
        /\ kind[s2] = "lazy" /\ Consumed(s2) /\ stores[s2] = 1
        /\ \A t \in Threads :
             pc[t] = "idle" /\ work[t] = [NoWork EXCEPT !.op = "into", !.fetch = 1]

\* the shared-memory steps a thread has left, at most, in its operation
Rank(p) ==
    CASE p = "fetch" -> 4
      [] p = "check" -> 3
      [] p = "cas" -> 2
      [] p = "panicking" -> 1
      [] p = "assert" -> 1
      [] OTHER -> 0

\* a read or construction in progress
Running(t) == pc[t] \in {"fetch", "check", "cas", "assert", "panicking"}

\* each step a thread takes inside an operation brings it nearer the end: no
\* step is repeated, a failed compare_exchange least of all
NeverRetries ==
    [][\A t \in Threads :
          Running(t) /\ pc'[t] # pc[t] => Rank(pc'[t]) < Rank(pc[t])]_vars

\* a thread inside an operation can take its next step whatever the others
\* have done or not done, until the process is aborted
NeverWaits ==
    \A t \in Threads :
        Running(t) /\ ~aborted =>
            ENABLED (\/ next_seq(t)
                     \/ next_id(t)
                     \/ lazy_init(t)
                     \/ get_nonzero_cold(t)
                     \/ nostd_abort(t))

\* no operation makes more than n loads of the slot, one fetch_add on the
\* counter and one compare_exchange on the slot
AtomicsWithin(n) ==
    \A t \in Threads :
        /\ work[t].load <= n
        /\ work[t].fetch <= 1
        /\ work[t].cas <= 1
        /\ work[t].fail <= work[t].cas

\* C16 (Wait-freedom), with one load: no thread inside a read ever waits, and no
\* read makes more than one load of the slot, one fetch_add on the counter
\* and one compare_exchange on the slot, which rules a retry out.
C16_OneLoad == NeverWaits /\ AtomicsWithin(1)

\* C16 (Wait-freedom), with two loads: every read ends after a bounded number of its
\* own steps whatever the other threads do, with at most one fetch_add on the
\* counter, one compare_exchange on the slot, never retried, and two loads of
\* the slot: the one on entry and, on the cold path only, the one inside
\* debug_assert_eq!; no thread waits for another.
C16_WaitFree ==
    /\ NeverRetries
    /\ [](NeverWaits /\ AtomicsWithin(2))
    /\ [](\A t \in Threads :
            work[t].load = 2 => work[t].fetch = 1 /\ work[t].cas = 1 /\ pc[t] = "idle")

\* a read whose compare_exchange failed has returned, two loads behind it
C16_Witness ==
    \E t \in Threads :
        /\ pc[t] = "idle"
        /\ work[t].op = "get"
        /\ work[t].fail = 1
        /\ work[t].load = 2

\* what the first and the second allocation of any run must produce:
\* 1 * 6848199123282258749 and 2 * 6848199123282258749
FirstId == Literal(<<684, 8199, 1232, 8225, 8749>>, 10000)
SecondId == Literal(<<1369, 6398, 2465, 6451, 7498>>, 10000)

\* C17 (Determinism): the k-th call of next_seq in a run, in the order of the
\* fetch_adds, is issued k, and the id made from it is mix(k), whatever else
\* the run does; so two runs that allocate in the same order get the same
\* values, 6848199123282258749 first and 13696398246564517498 second.
C17_Determinism ==
    /\ [](ID_ALLOC = wrapping_add(nAlloc, One))
    /\ [][\A t \in Threads :
            seq'[t] # seq[t] /\ seq'[t] # Zero =>
               /\ nAlloc' = wrapping_add(nAlloc, One)
               /\ seq'[t] = nAlloc']_vars
    /\ [](\A t \in Threads : pc[t] = "cas" => id[t] = mix(seq[t]))
    /\ [](\A s \in Slots :
            Allocated(s) /\ word[s] # Zero =>
               /\ word[s] = mix(winSeq[s])
               /\ winSeq[s] # Zero
               /\ ~Gt(winSeq[s], nAlloc)
               /\ winSeq[s] = One => word[s] = FirstId
               /\ winSeq[s] = U64(2) => word[s] = SecondId)

\* three allocations have been made; the first and the third each gave a slot
\* its value
C17_Witness ==
    /\ nAlloc = U64(3)
    /\ \E s \in Slots, s2 \in Slots :
         /\ Allocated(s) /\ winSeq[s] = One /\ word[s] = FirstId
         /\ Allocated(s2) /\ winSeq[s2] = U64(3) /\ word[s2] = mix(U64(3))

\* C18 (Diagnostic sequence recovery): Debug resolves the Id and writes its
\* value in hexadecimal and, as seq, the decimal form of value * ID2SEQ; for a
\* slot that the allocator resolved this is the sequence number the winning
\* initializer was issued. Display resolves the Id and writes the decimal form
\* of the value that get() returns. The first Id of a run reads
\* Id(0x5f09b0d1be616b3d; seq=1) and 6848199123282258749.
C18_DebugSeq ==
    \A t \in Threads :
        /\ out[t].k = "debug" =>
              /\ word[out[t].b] # Zero
              /\ out[t].hex = Hex(word[out[t].b])
              /\ out[t].seq = Decimal(unmix(word[out[t].b]))
              /\ Allocated(out[t].b) =>
                    /\ winSeq[out[t].b] \in issued
                    /\ out[t].seq = Decimal(winSeq[out[t].b])
                    /\ winSeq[out[t].b] = One =>
                          /\ out[t].seq = <<1>>
                          /\ out[t].hex = <<5, 15, 0, 9, 11, 0, 13, 1, 11, 14, 6, 1, 6, 11, 3, 13>>
        /\ out[t].k = "display" =>
              /\ word[out[t].b] # Zero
              /\ out[t].text = Decimal(word[out[t].b])
              /\ ret[out[t].b] = {word[out[t].b]}
              /\ winSeq[out[t].b] = One =>
                    out[t].text = <<6, 8, 4, 8, 1, 9, 9, 1, 2, 3, 2, 8, 2, 2, 5, 8, 7, 4, 9>>

\* a lazy Id formatted with {:?} while uninitialized: the formatter resolved
\* it with its own compare_exchange, and the seq it wrote is the third
C18_Witness ==
    \E t \in Threads :
        /\ out[t].k = "debug"
        /\ kind[out[t].b] = "lazy"
        /\ work[t].op = "debug"
        /\ work[t].cas = 1
        /\ work[t].fail = 0
        /\ out[t].seq = <<3>>

RECURSIVE Root(_)
\* the slot that s was cloned from, through any number of clones
Root(s) == IF kind[s] = "clone" THEN Root(cloneOf[s]) ELSE s

\* the slots whose value is a caller's: an Id from from_raw_integer, and its clones
CallerValued(s) == kind[Root(s)] = "raw"

\* a failed compare_exchange has seen a nonzero value, the one the winner
\* stored, and the loser returns it
LoserReturnsWinners ==
    /\ "e != 0" \notin failed
    /\ \A t \in Threads :
         work[t].fail = 1 =>
            /\ pc[t] \in {"assert", "idle"}
            /\ pc[t] = "assert" =>
                  /\ id[t] # Zero
                  /\ id[t] = word[self[t]]
                  /\ id[t] = mix(winSeq[self[t]])
                  /\ id[t] \notin discarded
                  /\ stores[self[t]] = 1
    /\ \A s \in Slots : ret[s] \subseteq {word[s]}
    /\ \A d \in discarded : d # Zero /\ \A t \in Threads : id[t] # d

\* C19 (Loser adoption), over every slot: once a loser has dropped the id it made
\* from its own sequence number, no step puts that value into any slot.
C19_InNoSlot ==
    /\ []LoserReturnsWinners
    /\ [][\A d \in discarded : \A s \in Slots : word[s] # d => word'[s] # d]_vars

\* C19 (Loser adoption), over the slots of the allocator: a compare_exchange that fails in lazy_init
\* has seen a nonzero value, the one the winner stored (debug_assert!(e != 0)
\* never fails); the loser returns that value; and the id the loser had made
\* from its own sequence number is, ever after, in no slot and returned by no
\* read, except where a caller put that number into an Id with
\* from_raw_integer.
C19_LoserAdopts ==
    /\ LoserReturnsWinners
    /\ \A d \in discarded :
         \A s \in Slots : ~CallerValued(s) => word[s] # d /\ d \notin ret[s]

\* a read that lost the race has returned the winner's value, and an Id made
\* afterwards got the next sequence number, not the loser's
C19_Witness ==
    \E t \in Threads, s \in Slots, s2 \in Slots :
        /\ pc[t] = "idle"
        /\ work[t].fail = 1
        /\ Cardinality(discarded) = 1
        /\ stores[s] = 1
        /\ ret[s] = {word[s]}
        /\ s2 # s
        /\ winSeq[s2] = U64(3)
        /\ word[s2] = mix(U64(3))

\* C20 (Read postcondition): while a thread stands between lazy_init and
\* the debug_assert_eq! of get_nonzero, whatever the other threads do, the
\* word of its slot is the value lazy_init returned to it, so that the
\* assertion never fails and no thread panics; and every value a read has
\* returned is nonzero and is the word of its slot.
C20_ReadPost ==
    /\ "load == my_id" \notin failed
    /\ \A t \in Threads :
         /\ pc[t] # "panicked"
         /\ pc[t] = "assert" => id[t] # Zero /\ word[self[t]] = id[t]
    /\ \A s \in Slots : \A v \in ret[s] : v # Zero /\ v = word[s]

\* every thread has taken the cold path for the one slot it read, one of
\* them as the loser, and has returned
C20_Witness ==
    \E s \in Slots :
        /\ stores[s] = 1
        /\ ret[s] = {word[s]}
        /\ discarded # {}
        /\ NumSlots = 1
        /\ \A t \in Threads :
             pc[t] = "idle" /\ work[t].op = "get" /\ work[t].load = 2 /\ work[t].cas = 1

\* thread t makes the fetch_add of next_seq in this step: for Id::new(), for
\* an ensure_init that found its word 0, or on the cold path of a read
FetchStep(t) ==
    /\ pc[t] \in {"idle", "fetch"}
    /\ pc'[t] = "check"
    /\ seq'[t] = ID_ALLOC
    /\ ID_ALLOC' = wrapping_add(ID_ALLOC, One)
    /\ work'[t].fetch = 1
    /\ pc[t] = "idle" => op'[t] \in {"new", "into"}
    /\ op'[t] = "into" => word[self'[t]] = Zero

\* the slots that exist keep their words in this step
WordsKept == \A s \in Slots : kind[s] # "none" => word'[s] = word[s]

\* C21 (Frame): the counter moves only in the fetch_add of next_seq, by one,
\* once for each Id::new() and once for each run of the cold path, which a
\* thread enters only after it found the word 0; a word is written only by
\* a thread on the cold path, and only when it was 0. So Id::lazy(),
\* from_raw_integer and every read, clone, comparison, formatting and
\* conversion of an Id that is initialized leave the counter and every word
\* as they were.
C21_Frame ==
    /\ [][/\ ID_ALLOC' # ID_ALLOC =>
               \E t \in Threads :
                   FetchStep(t) /\ WordsKept /\ \A u \in Threads \ {t} : pc'[u] = pc[u]
          /\ \A s \in Slots :
               kind[s] # "none" /\ word'[s] # word[s] =>
                  /\ word[s] = Zero
                  /\ ID_ALLOC' = ID_ALLOC
                  /\ \E t \in Threads :
                       /\ self[t] = s
                       /\ pc[t] \in {"check", "cas"}
                       /\ pc'[t] \in {"assert", "idle"}
                       /\ work[t].fetch = 1
          /\ \A t \in Threads :
               pc'[t] = "fetch" /\ pc[t] # "fetch" => word[self'[t]] = Zero
          /\ \A s \in Slots :
               kind[s] = "none" /\ kind'[s] # "none" =>
                  /\ ID_ALLOC' = ID_ALLOC
                  /\ WordsKept
                  /\ kind'[s] = "new" =>
                        \E t \in Threads :
                            op[t] = "new" /\ work[t].fetch = 1 /\ pc'[t] = "idle"
          /\ (\A t \in Threads :
                pc'[t] = pc[t] \/ {pc[t], pc'[t]} \subseteq {"idle", "load"}) =>
                   ID_ALLOC' = ID_ALLOC /\ WordsKept]_vars
    /\ [](\A t \in Threads :
            /\ pc[t] = "fetch" => work[t].fetch = 0
            /\ pc[t] \in {"check", "cas", "assert"} => work[t].fetch = 1)

\* one Id::new() is the only allocation so far, and since then its Id was
\* read and compared with an Id made by from_raw_integer, which was then
\* converted by value
C21_Witness ==
    \E s \in Slots, s2 \in Slots, t \in Threads :
        /\ ID_ALLOC = U64(2)
        /\ kind[s] = "new"
        /\ kind[s2] = "raw"
        /\ ret[s] # {}
        /\ Consumed(s2)
        /\ out[t].k = "eq"
        /\ out[t].a = s
        /\ out[t].b = s2

\* C22 (Provenance): in every reachable state the word of a slot made by
\* Id::lazy() or Id::new() is 0 or mix(s) for a sequence number s, at least 1
\* and below the counter, that next_seq has returned, and returned once only;
\* and no two such slots have the same s.
C22_Provenance ==
    /\ Cardinality(issued) = nIssued
    /\ \A s \in Slots :
         Allocated(s) /\ word[s] # Zero =>
            /\ word[s] = mix(winSeq[s])
            /\ winSeq[s] # Zero
            /\ Gt(ID_ALLOC, winSeq[s])
            /\ winSeq[s] \in issued
            /\ \A s2 \in Slots \ {s} :
                 Allocated(s2) /\ word[s2] # Zero => winSeq[s2] # winSeq[s]
    /\ \A s \in Slots : Allocated(s) /\ word[s] = Zero => winSeq[s] = Zero

\* a lazy Id resolved with the second sequence number, the first having lost
\* the race for it, and an Id::new() with the third
C22_Witness ==
    \E s \in Slots, s2 \in Slots :
        /\ kind[s] = "lazy"
        /\ winSeq[s] = U64(2)
        /\ word[s] = SecondId
        /\ kind[s2] = "new"
        /\ winSeq[s2] = U64(3)
        /\ discarded = {FirstId}
        /\ ID_ALLOC = U64(4)

====
